---- MODULE Spec2Model ----
(***************************************************************************)
(* BaitBiter: the ClickbaitVideo session of bait_biter/_clickbait_video.py *)
(* (transcript stemmed and stopword-filtered) and of src/clickbait_video.py*)
(* (transcript as fetched).  The constructor runs four steps in a fixed    *)
(* order (video id, title, transcript, question); answer_title_question    *)
(* may then be called any number of times.                                 *)
(*                                                                         *)
(* Text is a sequence of atoms: an atom is a word of Words or one of the   *)
(* characters SP (space), NL (newline), NBSP (non-breaking space).         *)
(***************************************************************************)
EXTENDS Naturals, Sequences, FiniteSets

VARIABLES variant, args, self, pc, error, calls, returned, track, handed

vars == <<variant, args, self, pc, error, calls, returned, track, handed>>

(* ------------------------------ bounds -------------------------------- *)

\* answer_title_question is invoked at most MaxAnswers times on a session
MaxAnswers == 2
\* a caption track holds at most MaxTrackLen atoms over all its segments
MaxTrackLen == 3

(* ----------------------------- constants ------------------------------ *)

Normalized == "bait_biter"
Raw == "src"
Variants == {Normalized, Raw}

DAVINCI == "text-davinci-003"
CURIE == "text-curie-001"
NoArg == "<no argument>"
Unset == "<unset>"
NoError == "<none>"
NoTrack == "<no track>"
NoText == "<nothing>"

AnswerMaxTokens == 100
QuestionMaxTokens == 200

SP == " "
NL == "\n"
NBSP == "<U+00A0>"
Whitespace == {SP, NL, NBSP}
Words == {"The", "owned", "gonna"}
Atoms == Words \cup Whitespace

(* --------------------------- text operators --------------------------- *)

\* "\n".join(segment texts)
RECURSIVE format_transcript(_)
format_transcript(t) ==
    IF t = <<>> THEN <<>>
    ELSE IF Len(t) = 1 THEN t[1]
    ELSE t[1] \o <<NL>> \o format_transcript(Tail(t))

\* str.replace(old, new) for one-character old and new
Replace(s, old, new) == [i \in 1..Len(s) |-> IF s[i] = old THEN new ELSE s[i]]

\* the maximal runs of atoms of s that hold no atom of seps
RECURSIVE SplitOn(_, _)
SplitOn(s, seps) ==
    IF s = <<>> THEN <<>>
    ELSE LET hits == {i \in 1..Len(s) : s[i] \in seps}
             cut == IF hits = {} THEN Len(s) + 1
                    ELSE CHOOSE i \in hits : \A j \in hits : i <= j
             head == SubSeq(s, 1, cut - 1)
             rest == SubSeq(s, cut + 1, Len(s))
         IN (IF head = <<>> THEN <<>> ELSE <<head>>) \o SplitOn(rest, seps)

RECURSIVE Flatten(_)
Flatten(ss) == IF ss = <<>> THEN <<>> ELSE ss[1] \o Flatten(Tail(ss))

\* the tokens the Treebank tokenizer makes of one word: it splits "gonna"
TokensOf(w) == IF w = "gonna" THEN <<"gon", "na">> ELSE <<w>>

\* nltk.word_tokenize: split at whitespace, then split each word into tokens
word_tokenize(s) ==
    LET runs == SplitOn(s, Whitespace)
    IN Flatten([i \in 1..Len(runs) |->
                  Flatten([j \in 1..Len(runs[i]) |-> TokensOf(runs[i][j])])])

\* str.lower()
Lower(w) == IF w = "The" THEN "the" ELSE w

\* PorterStemmer().stem(word): lower-cases, then strips suffixes
Stem(w) == IF Lower(w) = "owned" THEN "own" ELSE Lower(w)

StemAll(tokens) == [i \in 1..Len(tokens) |-> Stem(tokens[i])]

\* the members of stopwords.words("english") the vocabulary can produce
StopWords == {"the", "own"}

IsStopWord(w) == Lower(w) \in StopWords

\* [w for w in tokens for s in stop_words if w.lower() != s]
RemoveStopwordsNestedLoop(tokens) ==
    Flatten([i \in 1..Len(tokens) |->
               [k \in 1..Cardinality({sw \in StopWords : Lower(tokens[i]) # sw}) |-> tokens[i]]])

\* [word for word in stemmed_transcript if word.lower() not in stop_words]
RemoveStopwords(tokens) == SelectSeq(tokens, LAMBDA w : ~IsStopWord(w))

\* " ".join(tokens)
RECURSIVE JoinSpace(_)
JoinSpace(tokens) ==
    IF tokens = <<>> THEN <<>>
    ELSE IF Len(tokens) = 1 THEN <<tokens[1]>>
    ELSE <<tokens[1], SP>> \o JoinSpace(Tail(tokens))

\* the string word_tokenize receives in bait_biter
TokenizerInput(t) == Replace(Replace(format_transcript(t), NL, SP), NBSP, SP)

\* stopwords removed from the tokens first, the survivors stemmed afterwards
get_edited_transcript_FilterFirst(t) ==
    JoinSpace(StemAll(RemoveStopwords(word_tokenize(TokenizerInput(t)))))

\* _get_edited_transcript: tokenize, stem, remove stopwords, join
get_edited_transcript(t) ==
    JoinSpace(RemoveStopwords(StemAll(word_tokenize(TokenizerInput(t)))))

\* _get_transcript: only the newline is replaced
get_transcript(t) == Replace(format_transcript(t), NL, SP)

TranscriptOf(v, t) ==
    IF v = Normalized THEN get_edited_transcript(t) ELSE get_transcript(t)

\* the string the retriever hands on after joining and replacing
HandedOn(v, t) == IF v = Normalized THEN TokenizerInput(t) ELSE get_transcript(t)

(* ------------------------- external responses ------------------------- *)

GoodUrl == "https://youtu.be/dQw4w9WgXcQ"
BadUrl == "not a video url"
Urls == {GoodUrl, BadUrl}
ModelArgs == {NoArg, CURIE, DAVINCI}

\* pytube.extract.video_id: the 11-character id, or RegexMatchError
HasVideoId(url) == url = GoodUrl
VideoIdOf(url) == "dQw4w9WgXcQ"

OembedUrl(id) == <<"https://www.youtube.com/oembed?url=https://www.youtube.com/watch?v=", id, "&format=json">>

NetworkFailure == [arrived |-> FALSE, status |-> 0, is_json |-> FALSE, has_title |-> FALSE, title |-> ""]
TitleResponses ==
    {NetworkFailure}
    \cup {[arrived |-> TRUE, status |-> st, is_json |-> TRUE, has_title |-> TRUE,
           title |-> "You Won't Believe This Trick"] : st \in {200, 404}}
    \cup {[arrived |-> TRUE, status |-> st, is_json |-> TRUE, has_title |-> FALSE,
           title |-> ""] : st \in {200, 404}}
    \cup {[arrived |-> TRUE, status |-> st, is_json |-> FALSE, has_title |-> FALSE,
           title |-> ""] : st \in {200, 404}}

CompletionError == "<error response>"
QuestionTexts == {"What is the trick?", "Which trick?"}
AnswerTexts == {"Always check your work twice before submitting.", "Check your work."}
TranscriptErrors == {"TranscriptsDisabled", "ConnectionError"}

\* caption segments: non-empty texts in which whitespace separates the words
WellFormed(s) == \A i \in 1..(Len(s) - 1) : ~(s[i] \in Words /\ s[i + 1] \in Words)
SegmentsUpTo(n) == UNION {{s \in [1..k -> Atoms] : WellFormed(s)} : k \in 1..n}

RECURSIVE TracksUpTo(_)
TracksUpTo(n) ==
    {<<>>} \cup UNION {{<<s>> \o t : t \in TracksUpTo(n - Len(s))} : s \in SegmentsUpTo(n)}

Tracks == TracksUpTo(MaxTrackLen)

SampleTracks ==
    { << <<"The", SP, "gonna">>, <<"owned">> >>,
      << <<"gonna", NBSP, "owned", NL, "The">> >> }

\* the error kind of the design for each exception the libraries raise;
\* requests' JSONDecodeError is a RequestException and counts as a failed lookup
ErrorKind(exc) ==
    CASE exc = "RegexMatchError" -> "InvalidInput"
      [] exc = "ConnectionError" -> "UpstreamUnavailable"
      [] exc = "JSONDecodeError" -> "UpstreamUnavailable"
      [] exc = "KeyError" -> "MalformedResponse"
      [] exc = "TranscriptsDisabled" -> "TranscriptUnavailable"
      [] exc = "OpenAIError" -> "CompletionFailed"
      [] OTHER -> "none"

\* the prompt builders are called with these inputs; a prompt is the name of its
\* template with the inputs it was built from
question_from_title_prompt(title) ==
    [template |-> "question_from_title", inputs |-> <<title>>]
answer_question_prompt(transcript, question) ==
    [template |-> "answer_question", inputs |-> <<transcript, question>>]

(* ----------------------------- the session ---------------------------- *)

DefaultQuestionModel == DAVINCI

DefaultAnswerModelSwapped(v) == IF v = Normalized THEN CURIE ELSE DAVINCI

\* the default of answer_model_type in each file's __init__
DefaultAnswerModel(v) == IF v = Normalized THEN DAVINCI ELSE CURIE

NextStepSkipsQuestion(p) ==
    CASE p = "args" -> "video_id"
      [] p = "video_id" -> "title"
      [] p = "title" -> "transcript"
      [] p = "transcript" -> "ready"
      [] p = "question" -> "ready"

NextStepQuestionFirst(p) ==
    CASE p = "args" -> "video_id"
      [] p = "video_id" -> "title"
      [] p = "title" -> "question"
      [] p = "question" -> "transcript"
      [] p = "transcript" -> "ready"

\* the order of the statements of __init__: the step that follows step p
NextStep(p) ==
    CASE p = "args" -> "video_id"
      [] p = "video_id" -> "title"
      [] p = "title" -> "transcript"
      [] p = "transcript" -> "question"
      [] p = "question" -> "ready"

\* the model _generate_question_from_title sends: its gpt_model default, since
\* __init__ calls it without an argument
QuestionRequestModel(s) == DAVINCI

SelfAfterAnswerStoresAnswer(s, text) == [s EXCEPT !.question = text]

\* answer_title_question assigns no attribute
SelfAfterAnswer(s, text) == s

NoSelf ==
    [yt_url |-> Unset, api_key |-> Unset, question_model |-> Unset,
     answer_model_type |-> Unset, video_id |-> Unset, title |-> Unset,
     transcript |-> <<Unset>>, question |-> Unset]

Init ==
    /\ variant \in Variants
    /\ args \in [yt_url : Urls, api_key : {"sk-key"},
                 question_model : ModelArgs, answer_model_type : ModelArgs]
    /\ self = NoSelf
    /\ pc = "args"
    /\ error = NoError
    /\ calls = <<>>
    /\ returned = <<>>
    /\ track = NoTrack
    /\ handed = <<NoText>>

\* an exception leaves __init__: no session object reaches the caller
Raise(exc) == pc' = "raised" /\ error' = exc

AssignArgs ==
    /\ pc = "args"
    /\ self' = [self EXCEPT
                  !.yt_url = args.yt_url,
                  !.api_key = args.api_key,
                  !.question_model =
                      IF args.question_model = NoArg THEN DefaultQuestionModel
                      ELSE args.question_model,
                  !.answer_model_type =
                      IF args.answer_model_type = NoArg THEN DefaultAnswerModel(variant)
                      ELSE args.answer_model_type]
    /\ pc' = NextStep("args")
    /\ UNCHANGED <<variant, args, error, calls, returned, track, handed>>

ExtractVideoId ==
    /\ pc = "video_id"
    /\ IF HasVideoId(self.yt_url)
       THEN /\ self' = [self EXCEPT !.video_id = VideoIdOf(self.yt_url)]
            /\ pc' = NextStep("video_id")
            /\ UNCHANGED error
       ELSE /\ Raise("RegexMatchError")
            /\ UNCHANGED self
    /\ UNCHANGED <<variant, args, calls, returned, track, handed>>

\* _fetch_title: requests.get, response.json(), data["title"]; the status is not read
FetchTitle ==
    /\ pc = "title"
    /\ \E resp \in TitleResponses :
         /\ calls' = Append(calls, [kind |-> "GET", url |-> OembedUrl(self.video_id),
                                    response |-> resp])
         /\ IF ~resp.arrived THEN Raise("ConnectionError") /\ UNCHANGED self
            ELSE IF ~resp.is_json THEN Raise("JSONDecodeError") /\ UNCHANGED self
            ELSE IF ~resp.has_title THEN Raise("KeyError") /\ UNCHANGED self
            ELSE /\ self' = [self EXCEPT !.title = resp.title]
                 /\ pc' = NextStep("title")
                 /\ UNCHANGED error
    /\ UNCHANGED <<variant, args, returned, track, handed>>

GetTranscriptFails ==
    /\ pc = "transcript"
    /\ \E exc \in TranscriptErrors :
         /\ calls' = Append(calls, [kind |-> "get_transcript", video_id |-> self.video_id,
                                    response |-> exc])
         /\ Raise(exc)
    /\ UNCHANGED <<variant, args, self, returned, track, handed>>

GetTranscript(t) ==
    /\ pc = "transcript"
    /\ calls' = Append(calls, [kind |-> "get_transcript", video_id |-> self.video_id,
                               response |-> "track"])
    /\ track' = t
    /\ handed' = HandedOn(variant, t)
    /\ self' = [self EXCEPT !.transcript = TranscriptOf(variant, t)]
    /\ pc' = NextStep("transcript")
    /\ UNCHANGED <<variant, args, error, returned>>

GenerateQuestion ==
    /\ pc = "question"
    /\ \E r \in QuestionTexts \cup {CompletionError} :
         /\ calls' = Append(calls, [kind |-> "completion",
                                    model |-> QuestionRequestModel(self),
                                    prompt |-> question_from_title_prompt(self.title),
                                    max_tokens |-> QuestionMaxTokens,
                                    response |-> r])
         /\ IF r = CompletionError
            THEN Raise("OpenAIError") /\ UNCHANGED self
            ELSE /\ self' = [self EXCEPT !.question = r]
                 /\ pc' = NextStep("question")
                 /\ UNCHANGED error
    /\ UNCHANGED <<variant, args, returned, track, handed>>

AnswerTitleQuestionMemoized ==
    /\ pc = "ready"
    /\ Len(returned) < MaxAnswers
    /\ IF returned # <<>>
       THEN /\ returned' = Append(returned, returned[1])
            /\ UNCHANGED calls
       ELSE \E r \in AnswerTexts \cup {CompletionError} :
            /\ calls' = Append(calls, [kind |-> "completion",
                                       model |-> self.answer_model_type,
                                       prompt |-> answer_question_prompt(self.transcript, self.question),
                                       max_tokens |-> AnswerMaxTokens,
                                       response |-> r])
            /\ returned' = Append(returned, r)
    /\ UNCHANGED <<variant, args, self, pc, error, track, handed>>

\* answer_title_question: one completion request; its text, or its error, to the caller
AnswerTitleQuestion ==
    /\ pc = "ready"
    /\ Len(returned) < MaxAnswers
    /\ \E r \in AnswerTexts \cup {CompletionError} :
         /\ calls' = Append(calls, [kind |-> "completion",
                                    model |-> self.answer_model_type,
                                    prompt |-> answer_question_prompt(self.transcript, self.question),
                                    max_tokens |-> AnswerMaxTokens,
                                    response |-> r])
         /\ returned' = Append(returned, r)
         /\ self' = SelfAfterAnswer(self, r)
    /\ UNCHANGED <<variant, args, pc, error, track, handed>>

Next ==
    \/ AssignArgs
    \/ ExtractVideoId
    \/ FetchTitle
    \/ GetTranscriptFails
    \/ \E t \in SampleTracks : GetTranscript(t)
    \/ GenerateQuestion
    \/ AnswerTitleQuestion

Spec == Init /\ [][Next]_vars

(* --------- the transcript step over every bounded caption track -------- *)

TextInit ==
    /\ variant \in Variants
    /\ args = [yt_url |-> GoodUrl, api_key |-> "sk-key",
               question_model |-> NoArg, answer_model_type |-> NoArg]
    /\ self = [NoSelf EXCEPT
                 !.yt_url = GoodUrl,
                 !.api_key = "sk-key",
                 !.question_model = DefaultQuestionModel,
                 !.answer_model_type = DefaultAnswerModel(variant),
                 !.video_id = VideoIdOf(GoodUrl),
                 !.title = "You Won't Believe This Trick"]
    /\ pc = "transcript"
    /\ error = NoError
    /\ calls = << [kind |-> "GET", url |-> OembedUrl(VideoIdOf(GoodUrl)),
                   response |-> [arrived |-> TRUE, status |-> 200, is_json |-> TRUE,
                                 has_title |-> TRUE,
                                 title |-> "You Won't Believe This Trick"]] >>
    /\ returned = <<>>
    /\ track = NoTrack
    /\ handed = <<NoText>>

TextNext == \E t \in Tracks : GetTranscript(t)

TextSpec == TextInit /\ [][TextNext]_vars

(* ------------------------- reading the call log ----------------------- *)

CallsOfKind(k) == SelectSeq(calls, LAMBDA c : c.kind = k)
CompletionCalls == CallsOfKind("completion")
QuestionCalls == SelectSeq(CompletionCalls, LAMBDA c : c.prompt.template = "question_from_title")
AnswerCalls == SelectSeq(CompletionCalls, LAMBDA c : c.prompt.template = "answer_question")

AllSet(s) ==
    /\ s.yt_url # Unset /\ s.api_key # Unset
    /\ s.question_model # Unset /\ s.answer_model_type # Unset
    /\ s.video_id # Unset /\ s.title # Unset
    /\ s.transcript # <<Unset>> /\ s.question # Unset

LargerTier == DAVINCI
SmallerTier == CURIE

\* the whitespace-separated words of a text
WordCount(s) == Len(SplitOn(s, Whitespace))

RECURSIVE JoinRuns(_)
JoinRuns(runs) ==
    IF runs = <<>> THEN <<>>
    ELSE IF Len(runs) = 1 THEN runs[1]
    ELSE runs[1] \o <<SP>> \o JoinRuns(Tail(runs))

\* the stopword filter run once more, on a finished transcript
FilterAgain(s) ==
    JoinRuns(SelectSeq(SplitOn(s, {SP}), LAMBDA run : ~(Len(run) = 1 /\ IsStopWord(run[1]))))

(* -------------------------------- claims ------------------------------ *)

C1_StateInv ==
    /\ pc \in {"args", "video_id", "title", "transcript", "question", "ready", "raised"}
    /\ pc = "ready" =>
         /\ AllSet(self)
         /\ error = NoError
         /\ Len(calls) >= 3
         /\ calls[1].kind = "GET"
         /\ calls[2].kind = "get_transcript" /\ calls[2].response = "track"
         /\ calls[3].kind = "completion" /\ calls[3].response = self.question
    /\ self.question # Unset => self.transcript # <<Unset>>
    /\ self.transcript # <<Unset>> => self.title # Unset
    /\ self.title # Unset => self.video_id # Unset
    /\ pc = "raised" => error # NoError /\ ~AllSet(self)
    /\ (returned # <<>> \/ AnswerCalls # <<>>) => pc = "ready" /\ AllSet(self)

\* C1: a session is Ready only after video id, title, transcript and question
\* were obtained in that order; a failed step propagates its error and leaves no
\* usable session, so no answer is ever requested on a session with an unset
\* title, transcript or question; a Ready session stays Ready.
C1_TwoStates ==
    /\ []C1_StateInv
    /\ [][(pc = "ready" => pc' = "ready") /\ (pc = "raised" => pc' = "raised")]_vars

C1_Witness == pc = "ready" /\ Len(returned) >= 1

\* C2: a title response with a non-2xx status makes construction fail with
\* UpstreamUnavailable, no transcript fetch and no completion call following,
\* whatever the body.
C2_Non2xxTitleFails ==
    \A i \in 1..Len(calls) :
        (/\ calls[i].kind = "GET"
         /\ calls[i].response.arrived
         /\ ~(calls[i].response.status \in 200..299))
        => /\ pc = "raised"
           /\ ErrorKind(error) = "UpstreamUnavailable"
           /\ CallsOfKind("get_transcript") = <<>>
           /\ CompletionCalls = <<>>

\* C3: when the transcript fetch fails, construction fails with that error,
\* the title fetch has happened and no completion request was issued.
C3_NoCompletionBeforeTranscript ==
    \A i \in 1..Len(calls) :
        (calls[i].kind = "get_transcript" /\ calls[i].response \in TranscriptErrors)
        => /\ pc = "raised"
           /\ error = calls[i].response
           /\ CompletionCalls = <<>>
           /\ CallsOfKind("GET") # <<>>
           /\ self.title # Unset

C3_Witness ==
    /\ pc = "raised"
    /\ ErrorKind(error) = "TranscriptUnavailable"
    /\ CallsOfKind("get_transcript") # <<>>

\* C4: k answer operations issue exactly k completion requests, each with the
\* stored transcript and question in its prompt, the answer model and a cap of
\* 100 tokens, and each returns the outcome of its own request.
C4_NoMemoization ==
    pc = "ready" =>
        /\ Len(AnswerCalls) = Len(returned)
        /\ Len(CompletionCalls) = 1 + Len(returned)
        /\ \A i \in 1..Len(AnswerCalls) :
             /\ AnswerCalls[i].model = self.answer_model_type
             /\ AnswerCalls[i].prompt.template = "answer_question"
             /\ AnswerCalls[i].prompt.inputs = <<self.transcript, self.question>>
             /\ AnswerCalls[i].max_tokens = 100
             /\ i <= Len(returned) => returned[i] = AnswerCalls[i].response

C4_Witness ==
    /\ pc = "ready"
    /\ Len(returned) = 2
    /\ returned[1] \in AnswerTexts /\ returned[2] \in AnswerTexts
    /\ returned[1] # returned[2]
    /\ Len(AnswerCalls) = 2

\* C5: once the session is Ready no answer operation, failed or not, changes
\* its video id, title, transcript, question or model names.
C5_ReadyStateFrozen == [][pc = "ready" => self' = self]_vars

C5_Witness ==
    /\ pc = "ready"
    /\ Len(returned) >= 2
    /\ \E i \in 1..Len(returned) : returned[i] = CompletionError
    /\ \E i \in 1..Len(returned) : returned[i] \in AnswerTexts

\* C6: the question completion request carries the question-model name the
\* caller configured (the default when none was passed).
C6_QuestionModelUsed ==
    \A i \in 1..Len(QuestionCalls) :
        QuestionCalls[i].model =
            (IF args.question_model = NoArg THEN DefaultQuestionModel ELSE args.question_model)

\* C7 as claimed: with no answer-model argument the normalized session answers
\* with the smaller tier and the raw session with the larger tier, the default
\* question-model tier.
C7_DefaultTierAsClaimed ==
    (args.answer_model_type = NoArg /\ pc \notin {"args"}) =>
        /\ variant = Normalized => self.answer_model_type = SmallerTier
        /\ variant = Raw => self.answer_model_type = LargerTier
        /\ DefaultQuestionModel = LargerTier

\* C7 as amended: with no answer-model argument the normalized session answers
\* with the larger tier, which is also the default question-model tier, and the
\* raw session answers with the smaller tier.
C7_DefaultTier ==
    (args.answer_model_type = NoArg /\ pc \notin {"args"}) =>
        /\ variant = Normalized => self.answer_model_type = LargerTier
        /\ variant = Raw => self.answer_model_type = SmallerTier
        /\ DefaultQuestionModel = LargerTier
        /\ \A i \in 1..Len(AnswerCalls) : AnswerCalls[i].model = self.answer_model_type

C7_Witness ==
    /\ args.answer_model_type = NoArg
    /\ variant = Normalized
    /\ AnswerCalls # <<>>

\* C8: in both modes the string handed on after joining the segments holds
\* neither a newline nor a non-breaking space.
C8_NoNewlineNoNbsp ==
    pc = "question" => \A i \in 1..Len(handed) : handed[i] \notin {NL, NBSP}

NormalizedTranscript ==
    IF variant = Normalized THEN self.transcript ELSE get_edited_transcript(track)
RawTranscript ==
    IF variant = Raw THEN self.transcript ELSE get_transcript(track)

\* C9 as claimed: the normalized transcript has no more words than the raw
\* transcript of the same caption track.
C9_NoMoreWordsThanRaw ==
    pc = "question" => WordCount(NormalizedTranscript) <= WordCount(RawTranscript)

\* C9 as amended: the normalized transcript has no more words than the
\* tokenizer made tokens of the joined text.
C9_NoMoreWordsThanTokens ==
    (pc = "question" /\ variant = Normalized) =>
        WordCount(self.transcript) <= Len(word_tokenize(handed))

C9_Witness ==
    /\ pc = "question"
    /\ variant = Normalized
    /\ WordCount(self.transcript) > WordCount(get_transcript(track))

\* C10: filtering stopwords out of the normalized transcript once more leaves
\* it unchanged: none of its tokens is a stopword.
C10_FilterIdempotent ==
    (pc = "question" /\ variant = Normalized) =>
        /\ FilterAgain(self.transcript) = self.transcript
        /\ \A i \in 1..Len(self.transcript) : ~IsStopWord(self.transcript[i])

C10_Witness ==
    /\ pc = "question"
    /\ variant = Normalized
    /\ \E i \in 1..Len(track) : \E j \in 1..Len(track[i]) : track[i][j] = "owned"
    /\ self.transcript # <<>>

====
